---- MODULE Spec2Model ----
(***************************************************************************)
(* The per-hop stream map of a circuit (tor-proto, circuit/streammap.rs):  *)
(* a map from stream identifiers to stream entries, a rotating counter     *)
(* that hands out identifiers, and the two closing transitions.            *)
(*                                                                         *)
(* StreamId is a u16 in the source.  The model keeps the arithmetic of a   *)
(* fixed-width unsigned counter (wrapping addition, one probe per value of *)
(* the type) but at a width of IdSpace values instead of 2^16, so that     *)
(* wrap-around through 0, reuse of a closed identifier and exhaustion of   *)
(* the identifier space are all states the model checker reaches.          *)
(***************************************************************************)
EXTENDS Integers, Sequences, FiniteSets, TLC

\* ------------------------------------------------------------- bounds

\* Number of values of the identifier type (2^16 for the source's u16).
IdSpace == 4

\* The window handed to add_ent, for sending and for receiving.
MaxWindow == 1

\* Largest dropped-cell count a caller records on one Open entry.
MaxDropped == 2

\* ------------------------------------------------------------- values

\* Every value of the identifier type, the reserved 0 included.
StreamIds == 0 .. (IdSpace - 1)

\* The identifiers a stream can have.
NonZeroIds == StreamIds \ {0}

wrapping_add_unwrapped(a, b) == a + b

wrapping_add_skipping_zero(a, b) ==
    IF (a + b) % IdSpace = 0 THEN 1 ELSE (a + b) % IdSpace

\* u16::wrapping_add at the model's width.
wrapping_add(a, b) == (a + b) % IdSpace

is_zero_never(id) == FALSE

\* StreamId::is_zero
is_zero(id) == id = 0

NumProbesOneShort == IdSpace - 1

NumProbesOneOver == IdSpace + 1

\* The iteration count of add_ent's loop, `1..=65536`: one per value of u16.
NumProbes == IdSpace

\* Windows a caller passes to add_ent.
SendWindows == {MaxWindow}
RecvWindows == {MaxWindow}

HalfStream_windows_swapped(sw, rw, ok) ==
    [send_window |-> rw, recv_window |-> sw, connected_ok |-> ok]

\* HalfStream::new(send_window, recv_window, connected_ok)
HalfStream(sw, rw, ok) ==
    [send_window |-> sw, recv_window |-> rw, connected_ok |-> ok]

\* StreamEnt::Open { send_window, recv_window, dropped } (the two channel
\* endpoints carry no state the map reads).
Open(sw, rw, d) ==
    [state |-> "Open", send_window |-> sw, recv_window |-> rw, dropped |-> d]

\* StreamEnt::EndReceived
EndReceived == [state |-> "EndReceived"]

\* StreamEnt::EndSent(HalfStream)
EndSent(h) == [state |-> "EndSent", half |-> h]

\* Return values.  kind is Ok, Err, Panic, Some or None; what names the
\* variant; id is the StreamId of Ok(id) and 0 otherwise.
Ret(kind, what, id) == [kind |-> kind, what |-> what, id |-> id]
OkId(id) == Ret("Ok", "StreamId", id)
Ok(what) == Ret("Ok", what, 0)
Err(what) == Ret("Err", what, 0)
PanicReturnsDontSend == Ret("Ok", "DontSend", 0)
PanicReturnsSend == Ret("Ok", "Send", 0)
Panic == Ret("Panic", "terminate on EndSent", 0)
NoRet == Ret("Ok", "StreamMap", 0)

\* HashMap operations on a function whose domain is the key set.
EmptyMap == [k \in {} |-> EndReceived]
contains_key(map, id) == id \in DOMAIN map
insert_only(map, id, ent) == [k \in {id} |-> ent]
insert(map, id, ent) ==
    [k \in (DOMAIN map) \cup {id} |-> IF k = id THEN ent ELSE map[k]]
remove_nothing(map, id) == map
remove(map, id) == [k \in (DOMAIN map) \ {id} |-> map[k]]

\* The result of one call: the map and counter it leaves and what it returns.
Result(map, next, r) == [m |-> map, next_stream_id |-> next, ret |-> r]

\* ------------------------------------------------------------ handlers

\* sendme::StreamRecvWindow::decrement_n: the window less n, or a failure
\* when n exceeds it.
decrement_n(window, n) ==
    IF n > window THEN [ok |-> FALSE, window |-> window]
                  ELSE [ok |-> TRUE, window |-> window - n]

is_vacant_always(map, id) == TRUE

\* The `if let Entry::Vacant(_) = ent` test of add_ent.
is_vacant(map, id) == ~contains_key(map, id)

\* The loop of add_ent with n iterations left: take the counter as the
\* candidate, advance the counter, pass over 0 and over occupied keys.
RECURSIVE add_ent_loop(_, _, _, _)
add_ent_loop(map, next, stream_ent, n) ==
    IF n = 0
    THEN Result(map, next, Err("IdRangeFull"))
    ELSE LET id == next
             advanced == wrapping_add(next, 1)
         IN  IF is_zero(id)
             THEN add_ent_loop(map, advanced, stream_ent, n - 1)
             ELSE IF is_vacant(map, id)
                  THEN Result(insert(map, id, stream_ent), advanced, OkId(id))
                  ELSE add_ent_loop(map, advanced, stream_ent, n - 1)

add_ent_lowest_free(map, next, send_window, recv_window) ==
    add_ent_loop(map, 1, Open(send_window, recv_window, 0), NumProbes)

\* StreamMap::add_ent
add_ent(map, next, send_window, recv_window) ==
    add_ent_loop(map, next, Open(send_window, recv_window, 0), NumProbes)

\* StreamMap::get_mut
get_mut(map, id) ==
    IF contains_key(map, id) THEN Ret("Some", map[id].state, 0)
                             ELSE Ret("None", "None", 0)

end_received_vacant_ignored(map, next, id) == Result(map, next, Ok("Unit"))

\* StreamMap::end_received, the Entry::Vacant arm: nothing is tracked under id.
end_received_vacant(map, next, id) ==
    Result(map, next, Err("CircProto: END cell on nonexistent stream"))

end_received_occupied_no_duplicate_check(map, next, id) ==
    CASE map[id].state = "EndSent" ->
            Result(remove(map, id), next, Ok("Unit"))
      [] OTHER ->
            Result(insert(map, id, EndReceived), next, Ok("Unit"))

end_received_occupied_keeps_end_sent(map, next, id) ==
    CASE map[id].state = "EndReceived" ->
            Result(map, next, Err("CircProto: two END cells on same stream"))
      [] OTHER ->
            Result(insert(map, id, EndReceived), next, Ok("Unit"))

\* StreamMap::end_received, the match on the occupied entry.
end_received_occupied(map, next, id) ==
    CASE map[id].state = "EndReceived" ->
            Result(map, next, Err("CircProto: two END cells on same stream"))
      [] map[id].state = "EndSent" ->
            Result(remove(map, id), next, Ok("Unit"))
      [] map[id].state = "Open" ->
            Result(insert(map, id, EndReceived), next, Ok("Unit"))

\* StreamMap::end_received
end_received(map, next, id) ==
    IF ~contains_key(map, id)
    THEN end_received_vacant(map, next, id)
    ELSE end_received_occupied(map, next, id)

terminate_open_not_reinserted(taken, next, id, ent) ==
    IF ~decrement_n(ent.recv_window, ent.dropped).ok
    THEN Result(taken, next, Err("recv window underflow"))
    ELSE Result(taken, next, Ok("Send"))

terminate_open_stays_open(taken, next, id, ent) ==
    IF ~decrement_n(ent.recv_window, ent.dropped).ok
    THEN Result(taken, next, Err("recv window underflow"))
    ELSE Result(insert(taken, id, ent), next, Ok("Send"))

\* StreamMap::terminate, the Open arm, entered with the entry already taken
\* out of the map: an error from decrement_n returns at once, otherwise the
\* half-closed record goes in under the same key.
terminate_open(taken, next, id, ent) ==
    LET w == decrement_n(ent.recv_window, ent.dropped)
    IN  IF ~w.ok
        THEN Result(taken, next, Err("recv window underflow"))
        ELSE Result(insert(taken, id,
                           EndSent(HalfStream(ent.send_window, w.window, TRUE))),
                    next, Ok("Send"))

\* StreamMap::terminate.  m.remove(&id) takes the entry out of the map before
\* the match; only the Open arm puts one back.
terminate(map, next, id) ==
    IF ~contains_key(map, id)
    THEN Result(map, next, Err("InternalError"))
    ELSE LET ent == map[id]
             taken == remove(map, id)
         IN  CASE ent.state = "EndReceived" ->
                    Result(taken, next, Ok("DontSend"))
               [] ent.state = "Open" ->
                    terminate_open(taken, next, id, ent)
               [] ent.state = "EndSent" ->
                    Result(taken, next, Panic)

\* -------------------------------------------------------------- state

VARIABLES
    m,               \* StreamMap::m
    next_stream_id,  \* StreamMap::next_stream_id
    call,            \* the last call made on the map and its arguments
    ret,             \* what that call returned
    fresh,           \* the allocation run since new(): the counter new() chose
                     \* and the identifiers add_ent has returned since, in
                     \* order; forgotten (Stale) once a key leaves the map
    streams          \* what the calls have told the caller about each stream
                     \* handed out and not yet closed in both directions

vars == <<m, next_stream_id, call, ret, fresh, streams>>

\* A stream as add_ent hands it out: no END accepted from the peer, no
\* terminate done, no END cell asked for.
NewStream == [end_received |-> FALSE, terminated |-> FALSE, sends |-> 0]

\* The caller's view after a call: add_ent Ok(id) starts a stream under id;
\* end_received Ok records the peer's END, terminate Ok the local close (and
\* a Send the END cell to transmit); the stream is over once both are done.
Told(c, r) ==
    IF r.kind # "Ok" \/ c.op \notin {"add_ent", "end_received", "terminate"}
    THEN streams
    ELSE IF c.op = "add_ent"
    THEN insert(streams, r.id, NewStream)
    ELSE IF c.id \notin DOMAIN streams
    THEN streams
    ELSE IF c.op = "end_received"
    THEN IF streams[c.id].terminated
         THEN remove(streams, c.id)
         ELSE [streams EXCEPT ![c.id].end_received = TRUE]
    ELSE IF streams[c.id].end_received
         THEN remove(streams, c.id)
         ELSE [streams EXCEPT ![c.id].terminated = TRUE,
                              ![c.id].sends = @ + (IF r.what = "Send" THEN 1 ELSE 0)]

Stale == [first_id |-> 0, issued |-> << >>]

\* No key has left the map since new().
Fresh == fresh # Stale

\* The program runs until terminate panics.
Alive == ret.kind # "Panic"

\* StreamMap::new: an empty map and a random nonzero counter.
Init ==
    /\ m = EmptyMap
    /\ next_stream_id \in NonZeroIds
    /\ call = [op |-> "new"]
    /\ ret = NoRet
    /\ fresh = [first_id |-> next_stream_id, issued |-> << >>]
    /\ streams = EmptyMap

\* What a call leaves behind: the map, the counter, and the record of it.
Apply(c, r) ==
    /\ m' = r.m
    /\ next_stream_id' = r.next_stream_id
    /\ call' = c
    /\ ret' = r.ret
    /\ fresh' = IF ~Fresh \/ (DOMAIN m) \ (DOMAIN r.m) # {}
                THEN Stale
                ELSE IF c.op = "add_ent" /\ r.ret.kind = "Ok"
                     THEN [fresh EXCEPT !.issued = Append(@, r.ret.id)]
                     ELSE fresh
    /\ streams' = Told(c, r.ret)

\* A caller opens a stream.
AddEnt ==
    /\ Alive
    /\ \E sw \in SendWindows, rw \in RecvWindows :
          Apply([op |-> "add_ent", send_window |-> sw, recv_window |-> rw],
                add_ent(m, next_stream_id, sw, rw))

\* A caller looks an identifier up and leaves the entry as it is.
GetMut ==
    /\ Alive
    /\ \E id \in StreamIds :
          Apply([op |-> "get_mut", id |-> id],
                Result(m, next_stream_id, get_mut(m, id)))

\* A caller finds the stream's consumer gone and counts the cell as dropped,
\* through the reference get_mut returns.
NoteDropped ==
    /\ Alive
    /\ \E id \in DOMAIN m :
          /\ m[id].state = "Open"
          /\ m[id].dropped < MaxDropped
          /\ Apply([op |-> "note_dropped", id |-> id],
                   Result([m EXCEPT ![id].dropped = @ + 1], next_stream_id,
                          get_mut(m, id)))

\* An END cell arrives for id.
EndReceivedCell ==
    /\ Alive
    /\ \E id \in StreamIds :
          Apply([op |-> "end_received", id |-> id],
                end_received(m, next_stream_id, id))

\* The local side closes id.
Terminate ==
    /\ Alive
    /\ \E id \in StreamIds :
          Apply([op |-> "terminate", id |-> id],
                terminate(m, next_stream_id, id))

Next == AddEnt \/ GetMut \/ NoteDropped \/ EndReceivedCell \/ Terminate

Spec == Init /\ [][Next]_vars

\* ------------------------------------------------------------- claims

\* C1: a successful add_ent returns an identifier that was not a key of the
\* map before the call, and every entry the map held before the call is
\* still there unchanged, whatever its state.
C1_AddEntNeverReusesLiveKey ==
    [][(call'.op = "add_ent" /\ ret'.kind = "Ok")
        => /\ ret'.id \notin DOMAIN m
           /\ \A k \in DOMAIN m : k \in DOMAIN m' /\ m'[k] = m[k]]_vars

\* C1 witness: add_ent succeeded, after identifiers had been closed and
\* freed, on a map that held an EndSent entry and an EndReceived entry under
\* other keys.
C1_Witness ==
    /\ call.op = "add_ent"
    /\ ret.kind = "Ok"
    /\ ~Fresh
    /\ \E a, b \in (DOMAIN m) \ {ret.id} :
          m[a].state = "EndSent" /\ m[b].state = "EndReceived"

\* C2: in a run of add_ent calls from new() (no key has left the map), the
\* identifiers returned are pairwise distinct; and no successful add_ent,
\* fresh run or not, returns 0.
C2_IssuedDistinctNonZero ==
    /\ Fresh =>
          \A i, j \in 1 .. Len(fresh.issued) :
             /\ fresh.issued[i] # 0
             /\ i # j => fresh.issued[i] # fresh.issued[j]
    /\ (call.op = "add_ent" /\ ret.kind = "Ok") => ret.id # 0

\* C2 witness: a fresh run that started above 1 has handed out every nonzero
\* identifier, so it went through the wrap past 0.
C2_Witness ==
    /\ Fresh
    /\ fresh.first_id > 1
    /\ Len(fresh.issued) = IdSpace - 1

\* C3 as stated: the k-th identifier of a fresh run is c + k - 1 modulo the
\* width, or the next value when that is 0.
C3_AsStated ==
    Fresh =>
       \A k \in 1 .. Len(fresh.issued) :
          LET v == (fresh.first_id + k - 1) % IdSpace
          IN  fresh.issued[k] = IF v = 0 THEN wrapping_add(v, 1) ELSE v

\* C3 amended: the k-th identifier of a fresh run is c + k - 1 while that is
\* below the width, and c + k modulo the width from the wrap on: the value 0
\* is left out of the sequence, which moves every later identifier up by one.
C3_KthIdentifierSkipsZero ==
    Fresh =>
       \A k \in 1 .. Len(fresh.issued) :
          fresh.issued[k] = IF fresh.first_id + k - 1 < IdSpace
                            THEN fresh.first_id + k - 1
                            ELSE (fresh.first_id + k) % IdSpace

\* C3 witness: a fresh run has returned an identifier after the one that
\* followed the skipped 0.
C3_Witness ==
    /\ Fresh
    /\ fresh.first_id + Len(fresh.issued) - 1 > IdSpace

\* C4: end_received on an Open entry succeeds and leaves EndReceived in its
\* place; end_received on an EndReceived entry fails with the duplicate-END
\* protocol violation and leaves the map as it was.
C4_DuplicateEndDetected ==
    [][call'.op = "end_received" =>
         LET id == call'.id
         IN  /\ (id \in DOMAIN m /\ m[id].state = "Open") =>
                   /\ ret' = Ok("Unit")
                   /\ m' = [m EXCEPT ![id] = EndReceived]
             /\ (id \in DOMAIN m /\ m[id].state = "EndReceived") =>
                   /\ ret' = Err("CircProto: two END cells on same stream")
                   /\ m' = m
                   /\ m'[id] = EndReceived]_vars

\* C4 witness: an END cell for an entry already in EndReceived was refused.
C4_Witness ==
    /\ call.op = "end_received"
    /\ ret = Err("CircProto: two END cells on same stream")
    /\ m[call.id] = EndReceived

\* C5: terminate on an Open entry whose dropped count does not exceed its
\* receive window returns Send and leaves EndSent; end_received on an EndSent
\* entry succeeds and removes the key.
C5_TerminateThenEndReceived ==
    [][/\ call'.op = "terminate" =>
            LET id == call'.id
            IN  (/\ id \in DOMAIN m
                 /\ m[id].state = "Open"
                 /\ m[id].dropped <= m[id].recv_window) =>
                    /\ ret' = Ok("Send")
                    /\ id \in DOMAIN m'
                    /\ m'[id].state = "EndSent"
       /\ call'.op = "end_received" =>
            LET id == call'.id
            IN  (id \in DOMAIN m /\ m[id].state = "EndSent") =>
                    /\ ret' = Ok("Unit")
                    /\ id \notin DOMAIN m']_vars

\* C5 witness: the END cell arrived for a locally closed stream and its key
\* is gone.
C5_Witness ==
    /\ call.op = "end_received"
    /\ ret = Ok("Unit")
    /\ call.id \notin DOMAIN m

\* C6: terminate on an EndReceived entry returns DontSend and removes the
\* key, and a lookup of the identifier on the map it leaves finds nothing.
C6_TerminateAfterEndReceived ==
    [][call'.op = "terminate" =>
         LET id == call'.id
         IN  (id \in DOMAIN m /\ m[id].state = "EndReceived") =>
                /\ ret' = Ok("DontSend")
                /\ id \notin DOMAIN m'
                /\ get_mut(m', id).kind = "None"]_vars

\* C6 witness: terminate answered DontSend and a lookup now finds nothing.
C6_Witness ==
    /\ call.op = "terminate"
    /\ ret = Ok("DontSend")
    /\ get_mut(m, call.id).kind = "None"

\* C7: for an identifier that is not a key, end_received fails with a
\* protocol violation and terminate with an internal error, and neither
\* changes the map or the counter.
C7_UnknownIdentifierErrors ==
    [][(call'.op \in {"end_received", "terminate"} /\ call'.id \notin DOMAIN m)
        => /\ call'.op = "end_received" =>
                 ret' = Err("CircProto: END cell on nonexistent stream")
           /\ call'.op = "terminate" => ret' = Err("InternalError")
           /\ m' = m
           /\ next_stream_id' = next_stream_id]_vars

\* C7 witness: an identifier that was handed out and has been closed in both
\* directions is refused by end_received.
C7_Witness ==
    /\ call.op = "end_received"
    /\ ret = Err("CircProto: END cell on nonexistent stream")
    /\ call.id # 0
    /\ ~Fresh
    /\ DOMAIN m = NonZeroIds \ {call.id}

\* C8 as stated: a call that returns leaves a previously present key absent
\* only if it is end_received on an EndSent entry or terminate on an
\* EndReceived entry, and it then returns Ok.
C8_AsStated ==
    [][ret'.kind # "Panic" =>
         \A k \in (DOMAIN m) \ (DOMAIN m') :
            /\ ret'.kind = "Ok"
            /\ call'.id = k
            /\ \/ call'.op = "end_received" /\ m[k].state = "EndSent"
               \/ call'.op = "terminate" /\ m[k].state = "EndReceived"]_vars

\* C9: for every Open entry, end_received then terminate succeeds both times
\* and ends with the key absent and DontSend; when terminate succeeds first
\* it returns Send, the end_received after it succeeds, and both orders end
\* in the same map (the one before, less the key) and the same counter.
C9_BothOrdersCloseAlike ==
    \A id \in DOMAIN m :
       m[id].state = "Open" =>
          LET t  == terminate(m, next_stream_id, id)
              te == end_received(t.m, t.next_stream_id, id)
              e  == end_received(m, next_stream_id, id)
              et == terminate(e.m, e.next_stream_id, id)
          IN  /\ e.ret = Ok("Unit")
              /\ et.ret = Ok("DontSend")
              /\ id \notin DOMAIN et.m
              /\ et.m = [k \in (DOMAIN m) \ {id} |-> m[k]]
              /\ et.next_stream_id = next_stream_id
              /\ t.ret.kind = "Ok" =>
                    /\ t.ret = Ok("Send")
                    /\ te.ret = Ok("Unit")
                    /\ id \notin DOMAIN te.m
                    /\ te.m = et.m
                    /\ te.next_stream_id = et.next_stream_id

\* C9 witness: a stream has just been closed in the order END received, then
\* terminate, beside an Open entry that can be closed in either order.
C9_Witness ==
    /\ call.op = "terminate"
    /\ ret = Ok("DontSend")
    /\ call.id \notin DOMAIN m
    /\ \E k \in DOMAIN m :
          /\ m[k].state = "Open"
          /\ 0 < m[k].dropped
          /\ m[k].dropped <= m[k].recv_window

\* C10: add_ent fails, with IdRangeFull, exactly when every nonzero
\* identifier is a key of the map, whatever the entries' states and whatever
\* the counter; otherwise it succeeds.
C10_FullExactlyWhenNoFreeId ==
    \A sw \in SendWindows, rw \in RecvWindows :
       LET r == add_ent(m, next_stream_id, sw, rw)
       IN  /\ r.ret = Err("IdRangeFull") <=> NonZeroIds \subseteq DOMAIN m
           /\ r.ret.kind = "Err" => r.ret = Err("IdRangeFull")
           /\ (call.op = "add_ent" /\ ret.kind = "Err") =>
                 NonZeroIds \subseteq DOMAIN m

\* C10 witness: add_ent failed on a map whose keys are all taken, one of
\* them by an EndSent entry and one by an EndReceived entry.
C10_Witness ==
    /\ call.op = "add_ent"
    /\ ret = Err("IdRangeFull")
    /\ \E a, b \in DOMAIN m :
          m[a].state = "EndSent" /\ m[b].state = "EndReceived"

\* C11: terminate on an EndSent entry does not return: the program panics,
\* so the call yields neither Send nor DontSend nor an error, and no call
\* follows it.
C11_TerminateOnEndSentPanics ==
    [][/\ (/\ call'.op = "terminate"
           /\ call'.id \in DOMAIN m
           /\ m[call'.id].state = "EndSent") =>
              /\ ret'.kind = "Panic"
              /\ ret'.what \notin {"Send", "DontSend"}
       /\ ret.kind # "Panic"]_vars

\* C11 witness: terminate has been called on a stream that was already
\* closed locally, and the program has stopped there.
C11_Witness ==
    /\ call.op = "terminate"
    /\ ret.kind = "Panic"
    /\ ~Alive

\* C12: terminate on an Open entry with send window s, receive window r and
\* dropped count d returns an error when d exceeds r, and otherwise stores
\* EndSent with the half-closed record (s, r - d, connected).
C12_HalfStreamFromWindows ==
    [][(/\ call'.op = "terminate"
        /\ call'.id \in DOMAIN m
        /\ m[call'.id].state = "Open") =>
          LET id == call'.id
              s == m[id].send_window
              r == m[id].recv_window
              d == m[id].dropped
          IN  IF d > r
              THEN ret'.kind = "Err"
              ELSE /\ id \in DOMAIN m'
                   /\ m'[id].state = "EndSent"
                   /\ m'[id].half.send_window = s
                   /\ m'[id].half.recv_window = r - d
                   /\ m'[id].half.connected_ok = TRUE]_vars

\* C12 witness: terminate has stored a half-closed record whose receive
\* window was reduced by a nonzero dropped count.
C12_Witness ==
    /\ call.op = "terminate"
    /\ ret = Ok("Send")
    /\ m[call.id].state = "EndSent"
    /\ m[call.id].half.recv_window < MaxWindow
    /\ m[call.id].half.send_window = MaxWindow

\* C13 as stated: while the program runs, get_mut finds nothing under an
\* identifier exactly when no stream handed out under it is still short of
\* being closed in both directions; it finds the Open variant for an Open
\* entry; and a get_mut call returns the lookup and changes neither the keys
\* nor the counter.
C13_AsStated ==
    [][/\ ret'.kind # "Panic" =>
            \A id \in StreamIds :
               get_mut(m', id).kind = "None" <=> id \notin DOMAIN streams'
       /\ \A id \in DOMAIN m' :
             m'[id].state = "Open" => get_mut(m', id) = Ret("Some", "Open", 0)
       /\ call'.op = "get_mut" =>
             /\ ret' = get_mut(m, call'.id)
             /\ DOMAIN m' = DOMAIN m
             /\ next_stream_id' = next_stream_id]_vars

\* C14: no step takes an entry from EndReceived or EndSent to Open under the
\* same key, and after end_received(id) or terminate(id) the entry of id,
\* if there is one, is not Open.
C14_NoPathBackToOpen ==
    [][/\ \A k \in DOMAIN m :
             m[k].state # "Open" =>
                ~(k \in DOMAIN m' /\ m'[k].state = "Open")
       /\ call'.op \in {"end_received", "terminate"} =>
             ~(call'.id \in DOMAIN m' /\ m'[call'.id].state = "Open")]_vars

\* C14 witness: after keys have been freed, add_ent has put an Open entry
\* into a map whose other identifiers are all held by half-closed entries.
C14_Witness ==
    /\ call.op = "add_ent"
    /\ ret.kind = "Ok"
    /\ ~Fresh
    /\ DOMAIN m = NonZeroIds
    /\ m[ret.id].state = "Open"
    /\ \A k \in (DOMAIN m) \ {ret.id} : m[k].state # "Open"

\* C15: identifier 0 is never a key of the map.
C15_ZeroNeverAKey == 0 \notin DOMAIN m

\* C15 witness: a fresh run that started above 1 has allocated 1, so the
\* counter went through 0 on the way, and 0 is no key.
C15_Witness ==
    /\ Fresh
    /\ fresh.first_id > 1
    /\ call.op = "add_ent"
    /\ ret = OkId(1)
    /\ ~contains_key(m, 0)

\* C16 as stated: after a successful add_ent the counter holds the nonzero
\* successor of the identifier returned, and the counter is never 0.
C16_AsStated ==
    /\ next_stream_id # 0
    /\ (call.op = "add_ent" /\ ret.kind = "Ok") =>
          next_stream_id = IF (ret.id + 1) % IdSpace = 0
                           THEN 1 ELSE (ret.id + 1) % IdSpace

\* C16 amended: after a successful add_ent the counter holds the identifier
\* returned plus 1 modulo the width, which is 0 after the largest
\* identifier; a failed add_ent, end_received, terminate, get_mut and a
\* caller's change to an entry leave the counter as it was.
C16_CounterIsReturnedPlusOne ==
    [][IF call'.op = "add_ent" /\ ret'.kind = "Ok"
       THEN next_stream_id' = (ret'.id + 1) % IdSpace
       ELSE next_stream_id' = next_stream_id]_vars

\* C16 witness: add_ent has returned the largest identifier and the counter
\* stands at 0.
C16_Witness ==
    /\ call.op = "add_ent"
    /\ ret = OkId(IdSpace - 1)
    /\ next_stream_id = 0

\* The i-th candidate add_ent looks at when it starts from counter c.
Candidate(c, i) == (c + i) % IdSpace

\* C17: whatever the map and the counter c, when add_ent succeeds it has
\* returned the first of the candidates c, c+1, ... (modulo the width, at
\* most one per value) that is neither 0 nor a key, it has inserted an Open
\* entry there and touched no other, and it has left the counter one past it.
C17_FirstFreeFromCounter ==
    \A sw \in SendWindows, rw \in RecvWindows :
       LET r == add_ent(m, next_stream_id, sw, rw)
       IN  r.ret.kind = "Ok" =>
              \E j \in 0 .. (IdSpace - 1) :
                 /\ r.ret.id = Candidate(next_stream_id, j)
                 /\ r.ret.id # 0
                 /\ r.ret.id \notin DOMAIN m
                 /\ \A i \in 0 .. (j - 1) :
                       \/ Candidate(next_stream_id, i) = 0
                       \/ Candidate(next_stream_id, i) \in DOMAIN m
                 /\ r.next_stream_id = Candidate(next_stream_id, j + 1)
                 /\ DOMAIN r.m = (DOMAIN m) \cup {r.ret.id}
                 /\ r.m[r.ret.id] = Open(sw, rw, 0)
                 /\ \A k \in DOMAIN m : r.m[k] = m[k]

\* C17 witness: the counter stands at the largest identifier, which is held
\* by an EndSent entry; 1 is held too and 2 is free, so add_ent has to pass
\* over an occupied key, then 0, then another occupied key.
C17_Witness ==
    /\ Alive
    /\ next_stream_id = IdSpace - 1
    /\ next_stream_id \in DOMAIN m
    /\ m[next_stream_id].state = "EndSent"
    /\ 1 \in DOMAIN m
    /\ 2 \notin DOMAIN m
    /\ add_ent(m, next_stream_id, MaxWindow, MaxWindow).ret = OkId(2)

\* C18: an add_ent that fails leaves the map and the counter exactly as they
\* were before the call.
C18_FailedAddEntChangesNothing ==
    [][(call'.op = "add_ent" /\ ret'.kind = "Err") =>
          /\ ret' = Err("IdRangeFull")
          /\ m' = m
          /\ next_stream_id' = next_stream_id]_vars

\* C18 witness: add_ent has failed on a map filled by a fresh run, with the
\* counter back at the nonzero value it had before the call.
C18_Witness ==
    /\ call.op = "add_ent"
    /\ ret = Err("IdRangeFull")
    /\ Fresh
    /\ next_stream_id # 0
    /\ next_stream_id = fresh.first_id

\* C19: terminate returns Send only for an entry that is Open at the call
\* and whose stream has had no END accepted from the peer, and no stream is
\* told to send more than once between its add_ent and the end of its entry.
C19_SendAtMostOncePerStream ==
    [][/\ (call'.op = "terminate" /\ ret' = Ok("Send")) =>
             /\ call'.id \in DOMAIN m
             /\ m[call'.id].state = "Open"
             /\ call'.id \in DOMAIN streams
             /\ ~streams[call'.id].end_received
             /\ streams[call'.id].sends = 0
       /\ \A id \in DOMAIN streams' : streams'[id].sends <= 1]_vars

\* C19 witness: a stream has been told to send its END cell while another
\* stream had the peer's END recorded.
C19_Witness ==
    /\ call.op = "terminate"
    /\ ret = Ok("Send")
    /\ streams[call.id].sends = 1
    /\ \E k \in (DOMAIN streams) \ {call.id} : streams[k].end_received

\* C20: end_received(id) and terminate(id), whatever they return, leave
\* every other identifier as it was, present or absent, with the same entry;
\* a successful add_ent changes nothing but the identifier it returns.
C20_CallsAreLocalToTheirIdentifier ==
    [][LET touched ==
              IF call'.op \in {"end_received", "terminate"} THEN {call'.id}
              ELSE IF call'.op = "add_ent" /\ ret'.kind = "Ok" THEN {ret'.id}
              ELSE {}
       IN  call'.op \in {"end_received", "terminate", "add_ent"} =>
              \A k \in StreamIds \ touched :
                 /\ k \in DOMAIN m <=> k \in DOMAIN m'
                 /\ k \in DOMAIN m => m'[k] = m[k]]_vars

\* C20 witness: terminate has failed on a window underflow and taken its
\* own entry away, beside an Open entry with dropped cells and a half-closed
\* entry that are still there.
C20_Witness ==
    /\ call.op = "terminate"
    /\ ret = Err("recv window underflow")
    /\ \E a, b \in (DOMAIN m) \ {call.id} :
          /\ m[a].state = "Open"
          /\ m[a].dropped > 0
          /\ m[b].state # "Open"

====
